---- MODULE Spec2Model ----
(***************************************************************************)
(* Model of the two chart generators of the repository:                    *)
(*   src/generate_vega_lite_spec_enhanced.py  generate_vega_lite_spec      *)
(*   src/process_structured_data.py           process_structured_data      *)
(* Both are functions from strings to a JSON string.  A call is one        *)
(* action; the Python objects they build are modelled as tagged values,    *)
(* Python strings as TLA+ strings examined character by character.         *)
(***************************************************************************)
EXTENDS Integers, Sequences, FiniteSets, TLC

VARIABLES
    chart_description,      \* argument of generate_vega_lite_spec
    data_sample,            \* argument of both entry points
    processing_instruction, \* argument of process_structured_data
    hash_seed,              \* str hash seed of the interpreter process
    pc,                     \* "ready": caller about to call, "done": call over
    entry,                  \* entry point of the last call
    result,                 \* what the last call returned or raised
    locals,                 \* local variables of the last call at its end
    earlier                 \* per entry point, result of its first call

vars == <<chart_description, data_sample, processing_instruction, hash_seed,
          pc, entry, result, locals, earlier>>

(***************************************************************************)
(* Python values.  JSON text decodes to these and json.dumps encodes them. *)
(***************************************************************************)
None == [t |-> "null"]
JBool(b) == [t |-> "bool", b |-> b]
JNum(n) == [t |-> "num", n |-> n]
JFloat(num, den) == [t |-> "float", num |-> num, den |-> den]
JStr(s) == [t |-> "str", s |-> s]
JList(items) == [t |-> "list", items |-> items]
Exc(type) == [t |-> "exception", type |-> type]

IsExc(v) == v.t = "exception"
IsDict(v) == v.t = "dict"
IsList(v) == v.t = "list"
IsStr(v) == v.t = "str"
\* isinstance(v, (int, float)): bool is a subclass of int
IsIntOrFloat(v) == v.t \in {"num", "float", "bool"}
\* isinstance(v, (int, float)) and not isinstance(v, bool)
IsNumeric(v) == v.t \in {"num", "float"}
\* the number a numeric or boolean value stands for in arithmetic
NumOf(v) == IF v.t = "bool" THEN (IF v.b THEN 1 ELSE 0) ELSE v.n

\* d[k] = v on the entries of a dict: an existing key keeps its place
DictSet(entries, k, v) ==
    IF \E i \in 1..Len(entries) : entries[i].k = k
    THEN [i \in 1..Len(entries) |->
            IF entries[i].k = k THEN [k |-> k, v |-> v] ELSE entries[i]]
    ELSE Append(entries, [k |-> k, v |-> v])

KV(k, v) == [k |-> k, v |-> v]

\* a dict display whose keys differ, entries in insertion order
JDict(items) == [t |-> "dict", items |-> items]

\* a dict built from entries whose keys may repeat: a repeated key keeps its
\* first place and its last value
dict_of(entries) ==
    LET n == Len(entries)
        firsts == SelectSeq([i \in 1..n |-> i],
                            LAMBDA i : \A h \in 1..(i - 1) : entries[h].k # entries[i].k)
        last(k) == CHOOSE i \in 1..n :
                       entries[i].k = k /\ \A h \in (i + 1)..n : entries[h].k # k
    IN JDict([j \in 1..Len(firsts) |->
                 KV(entries[firsts[j]].k, entries[last(entries[firsts[j]].k)].v)])

Keys(d) == [i \in 1..Len(d.items) |-> d.items[i].k]
HasKey(d, k) == \E i \in 1..Len(d.items) : d.items[i].k = k
Get(d, k) == d.items[CHOOSE i \in 1..Len(d.items) : d.items[i].k = k].v

\* truth value of a Python object
Truthy(v) ==
    CASE v.t = "null" -> FALSE
      [] v.t = "bool" -> v.b
      [] v.t = "num" -> v.n # 0
      [] v.t = "float" -> v.num # 0
      [] v.t = "str" -> v.s # ""
      [] v.t = "list" -> Len(v.items) > 0
      [] v.t = "dict" -> Len(v.items) > 0

\* a or b
Or(a, b) == IF Truthy(a) THEN a ELSE b

\* name = value, then the statements that use name: value is computed once
Local(value, rest(_)) == rest(value)

(***************************************************************************)
(* Python str methods and the regular expressions the code uses.           *)
(***************************************************************************)
Char(s, i) == SubSeq(s, i, i)
Uppers == "ABCDEFGHIJKLMNOPQRSTUVWXYZ"
Lowers == "abcdefghijklmnopqrstuvwxyz"

IsUpper(c) == \E i \in 1..Len(Uppers) : Char(Uppers, i) = c
IsLower(c) == \E i \in 1..Len(Lowers) : Char(Lowers, i) = c
LowerChar(c) ==
    IF IsUpper(c)
    THEN Char(Lowers, CHOOSE i \in 1..Len(Uppers) : Char(Uppers, i) = c)
    ELSE c
UpperChar(c) ==
    IF IsLower(c)
    THEN Char(Uppers, CHOOSE i \in 1..Len(Lowers) : Char(Lowers, i) = c)
    ELSE c

\* s.lower()
RECURSIVE Lower(_)
Lower(s) == IF s = "" THEN "" ELSE LowerChar(Head(s)) \o Lower(Tail(s))

\* not s.strip()
IsBlank(s) == \A i \in 1..Len(s) : Char(s, i) \in {" ", "\t", "\n", "\r"}

\* kw in s
Contains(s, kw) ==
    \E i \in 1..(Len(s) - Len(kw) + 1) : SubSeq(s, i, i + Len(kw) - 1) = kw

\* s.startswith(p)
StartsWith(s, p) == Len(s) >= Len(p) /\ SubSeq(s, 1, Len(p)) = p

\* s.count(kw): occurrences, not overlapping, scanning from the left
RECURSIVE Count(_, _)
Count(s, kw) ==
    IF Len(s) < Len(kw) THEN 0
    ELSE IF SubSeq(s, 1, Len(kw)) = kw
         THEN 1 + Count(SubSeq(s, Len(kw) + 1, Len(s)), kw)
         ELSE Count(Tail(s), kw)

\* s.replace("_", " ")
RECURSIVE ReplaceUnderscore(_)
ReplaceUnderscore(s) ==
    IF s = "" THEN ""
    ELSE (IF Head(s) = "_" THEN " " ELSE Head(s)) \o ReplaceUnderscore(Tail(s))

\* s.title(): a letter after a letter is lowered, any other letter is raised
RECURSIVE TitleFrom(_, _)
TitleFrom(s, afterLetter) ==
    IF s = "" THEN ""
    ELSE LET c == Head(s)
             letter == IsUpper(c) \/ IsLower(c)
         IN (IF ~letter THEN c
             ELSE IF afterLetter THEN LowerChar(c) ELSE UpperChar(c))
            \o TitleFrom(Tail(s), letter)

\* field.replace("_", " ").title()
Humanize(s) == TitleFrom(ReplaceUnderscore(s), FALSE)

\* s.split(":", 1)[1] for an s that contains ":"
AfterColon(s) ==
    LET i == CHOOSE j \in 1..Len(s) :
                 Char(s, j) = ":" /\ \A h \in 1..(j - 1) : Char(s, h) # ":"
    IN SubSeq(s, i + 1, Len(s))

AllDigits(s) ==
    \A i \in 1..Len(s) :
        Char(s, i) \in {"0", "1", "2", "3", "4", "5", "6", "7", "8", "9"}

\* re.match(r'^\d{4}', s), and r'^\d{4}(-\d{2})?(-\d{2})?' which matches the same strings
MatchYear(s) == Len(s) >= 4 /\ AllDigits(SubSeq(s, 1, 4))

\* re.match(r'^\d{4}-\d{2}-\d{2}', s)
MatchIsoDate(s) ==
    /\ Len(s) >= 10
    /\ AllDigits(SubSeq(s, 1, 4)) /\ Char(s, 5) = "-"
    /\ AllDigits(SubSeq(s, 6, 7)) /\ Char(s, 8) = "-"
    /\ AllDigits(SubSeq(s, 9, 10))

\* any(keyword in s for keyword in keywords)
AnyIn(keywords, s) == \E i \in 1..Len(keywords) : Contains(s, keywords[i])

\* str(v) of a scalar
PyStr(v) ==
    CASE v.t = "str" -> v.s
      [] v.t = "num" -> ToString(v.n)
      [] v.t = "bool" -> (IF v.b THEN "True" ELSE "False")
      [] v.t = "null" -> "None"

(***************************************************************************)
(* The data_sample argument: a str that is either text json.loads rejects  *)
(* (s, possibly empty or blank) or the JSON text of the value v.           *)
(***************************************************************************)
Text(s) == [t |-> "text", s |-> s]
Json(v) == [t |-> "json", v |-> v]

\* not data_sample or not data_sample.strip()
SampleIsBlank(sample) == sample.t = "text" /\ IsBlank(sample.s)

\* json.loads(data_sample)
json_loads(sample) ==
    IF sample.t = "json" THEN sample.v ELSE Exc("JSONDecodeError")

\* json.dumps(document): the str returned to the caller
json_dumps(document) == Json(document)

(***************************************************************************)
(* src/generate_vega_lite_spec_enhanced.py                                 *)
(***************************************************************************)
ThreeRecordFallback ==
    << JDict(<< KV("category", JStr("A")), KV("value", JNum(28)) >>),
       JDict(<< KV("category", JStr("B")), KV("value", JNum(55)) >>),
       JDict(<< KV("category", JStr("C")), KV("value", JNum(43)) >>) >>

OneRecordFallback ==
    << JDict(<< KV("category", JStr("A")), KV("value", JNum(28)) >>) >>

\* lines 47-55: parse data with fallback
parsed_data_values(sample) ==
    IF SampleIsBlank(sample) THEN <<>>
    ELSE LET parsed == json_loads(sample)
         IN IF IsExc(parsed) THEN <<>>
            ELSE IF IsList(parsed) /\ Len(parsed.items) > 0 THEN parsed.items
            ELSE <<>>

\* variant: one record where the code gives three
default_data_values_one_record(parsed_values) ==
    IF parsed_values = <<>> THEN OneRecordFallback ELSE parsed_values

\* lines 57-67: default sample data if none provided
default_data_values(parsed_values) ==
    LET data_values == IF parsed_values = <<>> THEN ThreeRecordFallback
                       ELSE parsed_values
    IN IF Len(data_values) = 0 THEN OneRecordFallback ELSE data_values

\* first_item is unusable: falsy, not a dict, or fewer than two keys
bad_first_item(first_item) ==
    \/ ~Truthy(first_item)
    \/ ~IsDict(first_item)
    \/ Len(first_item.items) < 2

\* lines 47-78: the data_values and fields the rest of the function works on
normalize_data(sample) ==
    Local(default_data_values(parsed_data_values(sample)), LAMBDA data_values :
        IF bad_first_item(data_values[1])
        THEN [data_values |-> OneRecordFallback,
              fields |-> <<"category", "value">>]
        ELSE [data_values |-> data_values, fields |-> Keys(data_values[1])])

time_keywords == <<"year", "date", "time", "month", "day", "quarter", "week">>
category_keywords ==
    <<"name", "region", "category", "type", "brand", "segment",
      "product", "customer", "location", "country", "state", "city">>
value_keywords ==
    <<"sales", "revenue", "volume", "amount", "value", "price",
      "qty", "quantity", "usd", "count", "total", "sum", "avg", "mean">>

\* data_values[0][field] inside try/except: None when the lookup raises
first_row_value(data_values, field) ==
    IF IsDict(data_values[1]) /\ HasKey(data_values[1], field)
    THEN Get(data_values[1], field)
    ELSE None

\* variant: only text samples make a time field
is_time_field_text_only(roles, field, sample_value) ==
    /\ IsStr(sample_value)
    /\ \/ AnyIn(time_keywords, Lower(field))
       \/ Truthy(sample_value) /\ MatchYear(sample_value.s)
                               /\ roles.time_field = None

\* lines 111-119: the field becomes the time field and the loop continues
is_time_field(roles, field, sample_value) ==
    LET is_numeric == IsNumeric(sample_value)
        is_string == IsStr(sample_value)
    IN IF AnyIn(time_keywords, Lower(field))
       THEN is_numeric \/ is_string
       ELSE /\ is_string /\ Truthy(sample_value) /\ MatchYear(sample_value.s)
            /\ roles.time_field = None

\* lines 121-129: the field is appended to value_fields and the loop continues
is_value_field(field, sample_value) ==
    LET field_lower == Lower(field)
        has_value_keyword == AnyIn(value_keywords, field_lower)
        has_time_keyword == AnyIn(time_keywords, field_lower)
        has_id_keyword == Contains(field_lower, "id")
    IN /\ IsNumeric(sample_value)
       /\ has_value_keyword \/ (~has_time_keyword /\ ~has_id_keyword)

\* lines 131-138: category field detection
category_after(roles, field, sample_value) ==
    LET has_category_keyword == AnyIn(category_keywords, Lower(field))
    IN IF IsStr(sample_value)
       THEN IF has_category_keyword /\ roles.category_field = None
            THEN JStr(field)
            ELSE IF roles.category_field = None THEN JStr(field)
            ELSE roles.category_field
       ELSE roles.category_field

\* lines 97-138: one pass of the loop over fields
classify_field(roles, field, data_values) ==
    LET sample_value == first_row_value(data_values, field)
    IN IF is_time_field(roles, field, sample_value)
       THEN [roles EXCEPT !.time_field = JStr(field)]
       ELSE IF is_value_field(field, sample_value)
       THEN [roles EXCEPT !.value_fields = Append(@, field)]
       ELSE [roles EXCEPT
               !.category_field = category_after(roles, field, sample_value)]

RECURSIVE classify_fields(_, _, _)
classify_fields(roles, fields, data_values) ==
    IF fields = <<>> THEN roles
    ELSE classify_fields(classify_field(roles, Head(fields), data_values),
                         Tail(fields), data_values)

\* isinstance(data_values[0][field], (int, float)) inside try/except
first_row_is_number(data_values, field) ==
    /\ IsDict(data_values[1]) /\ HasKey(data_values[1], field)
    /\ IsIntOrFloat(Get(data_values[1], field))

\* lines 141-150: no value field found
value_fields_fallback(fields, data_values, value_fields) ==
    IF value_fields # <<>> THEN value_fields
    ELSE LET numbers == {i \in 1..Len(fields) :
                            first_row_is_number(data_values, fields[i])}
         IN IF numbers # {}
            THEN << fields[CHOOSE i \in numbers : \A j \in numbers : j <= i] >>
            ELSE << fields[Len(fields)] >>

\* data_values[0][field] is there and not an (int, float)
first_row_is_not_number(data_values, field) ==
    /\ IsDict(data_values[1]) /\ HasKey(data_values[1], field)
    /\ ~IsIntOrFloat(Get(data_values[1], field))

\* variant: no fallback for the category field
category_field_kept(fields, data_values, time_field, category_field) ==
    category_field

\* lines 152-161: neither a category field nor a time field found
category_field_fallback(fields, data_values, time_field, category_field) ==
    IF Truthy(category_field) \/ Truthy(time_field) THEN category_field
    ELSE LET others == {i \in 1..Len(fields) :
                           first_row_is_not_number(data_values, fields[i])}
             found == IF others # {}
                      THEN JStr(fields[CHOOSE i \in others :
                                           \A j \in others : i <= j])
                      ELSE category_field
         IN IF ~Truthy(found) THEN JStr(fields[1]) ELSE found

\* lines 81-163
detect_field_types(fields, data_values) ==
    Local(classify_fields([time_field |-> None, category_field |-> None,
                           value_fields |-> <<>>], fields, data_values),
          LAMBDA roles :
        [time_field |-> roles.time_field,
         category_field |-> category_field_fallback(
             fields, data_values, roles.time_field, roles.category_field),
         value_fields |-> value_fields_fallback(
             fields, data_values, roles.value_fields)])

\* `field in row` : "yes", "no", or "TypeError" when row is no container
field_in_row(field, row) ==
    CASE IsDict(row) -> IF HasKey(row, field) THEN "yes" ELSE "no"
      [] IsStr(row) -> IF Contains(row.s, field) THEN "yes" ELSE "no"
      [] IsList(row) ->
            IF \E i \in 1..Len(row.items) : row.items[i] = JStr(field)
            THEN "yes" ELSE "no"
      [] OTHER -> "TypeError"

\* `field in row and isinstance(row[field], (int, float))` raises: only a dict
\* can be indexed by a str
number_test_raises(field, row) ==
    \/ field_in_row(field, row) = "TypeError"
    \/ field_in_row(field, row) = "yes" /\ ~IsDict(row)

\* [row[field] for row in data if field in row and isinstance(row[field], (int, float))]
RECURSIVE numbers_of(_, _)
numbers_of(field, rows) ==
    IF rows = <<>> THEN <<>>
    ELSE LET row == Head(rows)
             rest == numbers_of(field, Tail(rows))
         IN IF IsDict(row) /\ HasKey(row, field) /\ IsIntOrFloat(Get(row, field))
            THEN <<NumOf(Get(row, field))>> \o rest
            ELSE rest

SeqMin(values) ==
    CHOOSE v \in {values[i] : i \in 1..Len(values)} :
        \A i \in 1..Len(values) : v <= values[i]
SeqMax(values) ==
    CHOOSE v \in {values[i] : i \in 1..Len(values)} :
        \A i \in 1..Len(values) : v >= values[i]
RECURSIVE SeqSum(_)
SeqSum(values) == IF values = <<>> THEN 0 ELSE Head(values) + SeqSum(Tail(values))

\* variant: a field with one distinct value has no range
range_of_distinct_values_only(values) ==
    [min |-> SeqMin(values), max |-> SeqMax(values),
     range |-> SeqMax(values) - SeqMin(values)]

\* lines 180-184
range_of(values) ==
    [min |-> SeqMin(values), max |-> SeqMax(values),
     range |-> IF SeqMax(values) # SeqMin(values)
               THEN SeqMax(values) - SeqMin(values) ELSE SeqMax(values)]

\* lines 174-186: ranges, in insertion order; a field whose values cannot be
\* collected or are none has no entry
RECURSIVE calculate_ranges(_, _)
calculate_ranges(value_fields, data_values) ==
    IF value_fields = <<>> THEN <<>>
    ELSE LET field == Head(value_fields)
             rest == calculate_ranges(Tail(value_fields), data_values)
             raises == \E i \in 1..Len(data_values) :
                           number_test_raises(field, data_values[i])
         IN Local(numbers_of(field, data_values), LAMBDA values :
                IF raises \/ values = <<>> THEN rest
                ELSE <<[field |-> field] @@ range_of(values)>> \o rest)

\* a quotient of two ints, den > 0, compared exactly: by the whole parts, and
\* by the remainders when these agree
Quot(num, den) == [num |-> num, den |-> den]
QuotGreater(a, b) ==
    IF a.num \div a.den # b.num \div b.den
    THEN a.num \div a.den > b.num \div b.den
    ELSE (a.num % a.den) * b.den > (b.num % b.den) * a.den
QuotMax(a, b) == IF QuotGreater(b, a) THEN b ELSE a

ScaleThreshold == 100

\* variant: the ratio is compared one way only
ratio_step_one_way(max_ratio, range1, range2) ==
    IF range2 > 0 THEN QuotMax(max_ratio, Quot(range1, range2)) ELSE max_ratio

\* lines 197-199: max_ratio after comparing ranges i and j
ratio_step(max_ratio, range1, range2) ==
    IF range2 > 0
    THEN LET ratio == Quot(range1, range2)
             inverse == IF range1 > 0 THEN Quot(range2, range1) ELSE Quot(1, 1)
         IN QuotMax(QuotMax(max_ratio, ratio), inverse)
    ELSE max_ratio

\* lines 193-199: the double loop, from pair (i, j) on
RECURSIVE compare_scales(_, _, _, _)
compare_scales(ranges, i, j, max_ratio) ==
    IF i > Len(ranges) THEN max_ratio
    ELSE IF j > Len(ranges) THEN compare_scales(ranges, i + 1, i + 2, max_ratio)
    ELSE compare_scales(ranges, i, j + 1,
                        ratio_step(max_ratio, ranges[i].range, ranges[j].range))

\* lines 166-204
have_different_scales(value_fields, data_values) ==
    IF Len(value_fields) < 2 THEN [different_scales |-> FALSE, ranges |-> <<>>]
    ELSE Local(calculate_ranges(value_fields, data_values), LAMBDA ranges :
            IF Len(ranges) < 2
            THEN [different_scales |-> FALSE, ranges |-> <<>>]
            ELSE [different_scales |->
                      QuotGreater(compare_scales(ranges, 1, 2, Quot(1, 1)),
                                  Quot(ScaleThreshold, 1)),
                  ranges |-> ranges])

\* line 207 (and 269): value_fields[0] if value_fields else fields[-1]
primary_value_field(value_fields, fields) ==
    IF value_fields # <<>> THEN value_fields[1] ELSE fields[Len(fields)]

SchemaUrl == "https://vega.github.io/schema/vega-lite/v5.json"
ViewConfig == KV("config", JDict(<< KV("view", JDict(<< KV("stroke", None) >>)) >>))
Tooltip == KV("tooltip", JBool(TRUE))
LabelAngle == KV("axis", JDict(<< KV("labelAngle", JNum(-45)) >>))

\* lines 211-218: the entries of base_spec
base_spec(description, data_values) ==
    << KV("$schema", JStr(SchemaUrl)),
       KV("description", JStr(description)),
       KV("data", JDict(<< KV("values", JList(data_values)) >>)),
       KV("width", JNum(500)),
       KV("height", JNum(300)) >>

\* "nominal" if category_field == x_field else "ordinal"
nominal_or_ordinal(category_field, x_field) ==
    JStr(IF category_field = x_field THEN "nominal" ELSE "ordinal")

\* variant: a time field on the x axis is always of type "temporal"
line_x_type_of_any_time_field(time_field, x_field, data_values) ==
    IF time_field = x_field THEN "temporal" ELSE "ordinal"

\* lines 230-241: the type of the x axis of a line chart
line_x_type(time_field, x_field, data_values) ==
    IF time_field = x_field
    THEN LET sample_value == first_row_value(data_values, x_field.s)
         IN IF IsStr(sample_value) /\ MatchIsoDate(sample_value.s)
            THEN "temporal" ELSE "ordinal"
    ELSE "ordinal"

\* lines 220-256: LINE CHART
line_chart(description, data_values, fields, roles) ==
    LET both == Truthy(roles.time_field) /\ Truthy(roles.category_field)
        x_field == IF both THEN roles.time_field
                   ELSE Or(Or(roles.time_field, roles.category_field),
                           JStr(fields[1]))
        y_field == primary_value_field(roles.value_fields, fields)
        color_field == IF both THEN roles.category_field ELSE None
        x_type == line_x_type(roles.time_field, x_field, data_values)
        encoding ==
            << KV("x", JDict(<< KV("field", x_field), KV("type", JStr(x_type)),
                               KV("title", JStr(Humanize(x_field.s))) >>)),
               KV("y", JDict(<< KV("field", JStr(y_field)),
                               KV("type", JStr("quantitative")),
                               KV("title", JStr(Humanize(y_field))) >>)) >>
            \o (IF Truthy(color_field)
                THEN << KV("color", JDict(<< KV("field", color_field),
                                            KV("type", JStr("nominal")),
                                            KV("title", JStr(Humanize(color_field.s))) >>)) >>
                ELSE <<>>)
    IN JDict(base_spec(description, data_values) \o
             << KV("mark", JDict(<< KV("type", JStr("line")),
                                  KV("point", JBool(TRUE)), Tooltip >>)),
                KV("encoding", JDict(encoding)),
                ViewConfig >>)

\* lines 263-266
is_year_comparison(description_lower, time_field) ==
    /\ Truthy(time_field)
    /\ \/ Contains(description_lower, "compare")
       \/ Contains(description_lower, "vs")
       \/ Contains(description_lower, "versus")
       \/ Count(description_lower, "year") >= 2

\* lines 284-288
wants_multi_metric(description_lower, value_fields) ==
    /\ Len(value_fields) > 1
    /\ AnyIn(<<"grouped", "two bars", "both", "multiple", "including", "compare">>,
             description_lower)

\* lines 268-281: year-over-year comparison
period_compare_chart(description, data_values, fields, roles, x_field) ==
    LET primary_metric == primary_value_field(roles.value_fields, fields)
    IN JDict(base_spec(description, data_values) \o
        << KV("mark", JDict(<< KV("type", JStr("bar")), Tooltip >>)),
           KV("encoding", JDict(<<
               KV("x", JDict(<< KV("field", x_field),
                               KV("type", nominal_or_ordinal(roles.category_field, x_field)),
                               LabelAngle >>)),
               KV("y", JDict(<< KV("field", JStr(primary_metric)),
                               KV("type", JStr("quantitative")),
                               KV("title", JStr(Humanize(primary_metric))) >>)),
               KV("color", JDict(<< KV("field", roles.time_field),
                                   KV("type", JStr("ordinal")),
                                   KV("title", JStr(Humanize(roles.time_field.s))) >>)),
               KV("xOffset", JDict(<< KV("field", roles.time_field) >>)) >>)),
           ViewConfig >>)

\* lines 291-322: DUAL-AXIS CHART
dual_axis_chart(description, data_values, roles, x_field) ==
    LET x_type == nominal_or_ordinal(roles.category_field, x_field)
        first == roles.value_fields[1]
        second == roles.value_fields[2]
    IN JDict(<<
        KV("$schema", JStr(SchemaUrl)),
        KV("description", JStr(description)),
        KV("data", JDict(<< KV("values", JList(data_values)) >>)),
        KV("width", JNum(500)),
        KV("height", JNum(300)),
        KV("layer", JList(<<
            JDict(<<
                KV("mark", JDict(<< KV("type", JStr("bar")), KV("opacity", JFloat(7, 10)),
                                   KV("color", JStr("#4c78a8")), Tooltip >>)),
                KV("encoding", JDict(<<
                    KV("x", JDict(<< KV("field", x_field), KV("type", x_type),
                                    LabelAngle,
                                    KV("title", JStr(Humanize(x_field.s))) >>)),
                    KV("y", JDict(<< KV("field", JStr(first)),
                                    KV("type", JStr("quantitative")),
                                    KV("title", JStr(Humanize(first))),
                                    KV("axis", JDict(<< KV("titleColor", JStr("#4c78a8")) >>)) >>))
                    >>)) >>),
            JDict(<<
                KV("mark", JDict(<< KV("type", JStr("line")), KV("color", JStr("#e45756")),
                                   KV("point", JDict(<< KV("filled", JBool(TRUE)),
                                                       KV("size", JNum(80)) >>)),
                                   KV("strokeWidth", JNum(3)), Tooltip >>)),
                KV("encoding", JDict(<<
                    KV("x", JDict(<< KV("field", x_field), KV("type", x_type) >>)),
                    KV("y", JDict(<< KV("field", JStr(second)),
                                    KV("type", JStr("quantitative")),
                                    KV("title", JStr(Humanize(second))),
                                    KV("axis", JDict(<< KV("titleColor", JStr("#e45756")),
                                                       KV("orient", JStr("right")) >>)) >>))
                    >>)) >>) >>)),
        KV("resolve", JDict(<< KV("scale", JDict(<< KV("y", JStr("independent")) >>)) >>)),
        ViewConfig >>)

\* lines 327-339: one chart of the vertical subplots
subplot(value_field, roles, x_field) ==
    JDict(<<
        KV("title", JDict(<< KV("text", JStr(Humanize(value_field))),
                            KV("fontSize", JNum(14)) >>)),
        KV("width", JNum(500)),
        KV("height", JNum(200)),
        KV("mark", JDict(<< KV("type", JStr("bar")), Tooltip >>)),
        KV("encoding", JDict(<<
            KV("x", JDict(<< KV("field", x_field),
                            KV("type", nominal_or_ordinal(roles.category_field, x_field)),
                            LabelAngle,
                            KV("title", JStr(Humanize(x_field.s))) >>)),
            KV("y", JDict(<< KV("field", JStr(value_field)),
                            KV("type", JStr("quantitative")),
                            KV("title", None) >>)),
            KV("color", JDict(<< KV("value", JStr("#4c78a8")) >>)) >>)) >>)

\* lines 324-348: VERTICAL SUBPLOTS
subplots_chart(description, data_values, roles, x_field) ==
    JDict(<<
        KV("$schema", JStr(SchemaUrl)),
        KV("description", JStr(description)),
        KV("data", JDict(<< KV("values", JList(data_values)) >>)),
        KV("vconcat", JList([i \in 1..Len(roles.value_fields) |->
                              subplot(roles.value_fields[i], roles, x_field)])),
        KV("resolve", JDict(<< KV("scale", JDict(<< KV("y", JStr("independent")) >>)) >>)),
        ViewConfig >>)

\* row[key]: only a dict can be indexed by a str, and only by a key it has
row_lookup(row, key) ==
    IF ~IsDict(row) THEN Exc("TypeError")
    ELSE IF ~HasKey(row, key) THEN Exc("KeyError")
    ELSE Get(row, key)

\* lines 355-359: one record of transformed_data, or the exception raised
transformed_record(row, x_field, value_field) ==
    LET x_value == row_lookup(row, x_field)
        y_value == row_lookup(row, value_field)
    IN IF IsExc(x_value) THEN x_value
       ELSE IF IsExc(y_value) THEN y_value
       ELSE dict_of(<< KV(x_field, x_value),
                       KV("metric", JStr(Humanize(value_field))),
                       KV("value", y_value) >>)

\* lines 352-359: records in row order, then value field order; the first
\* exception ends the loops
RECURSIVE transformed_data(_, _, _, _)
transformed_data(rows, x_field, value_fields, k) ==
    IF rows = <<>> THEN <<>>
    ELSE IF k > Len(value_fields)
    THEN transformed_data(Tail(rows), x_field, value_fields, 1)
    ELSE Local(transformed_record(Head(rows), x_field, value_fields[k]),
               LAMBDA record :
            IF IsExc(record) THEN <<record>>
            ELSE <<record>> \o transformed_data(rows, x_field, value_fields, k + 1))

\* lines 350-372: STANDARD GROUPED BARS
grouped_bars_chart(description, data_values, roles, x_field) ==
    Local(transformed_data(data_values, x_field.s, roles.value_fields, 1),
          LAMBDA records :
       IF records # <<>> /\ IsExc(records[Len(records)])
       THEN records[Len(records)]
       ELSE JDict(DictSet(base_spec(description, data_values), "data",
                          JDict(<< KV("values", JList(records)) >>)) \o
            <<
               KV("mark", JDict(<< KV("type", JStr("bar")), Tooltip >>)),
               KV("encoding", JDict(<<
                   KV("x", JDict(<< KV("field", x_field),
                                   KV("type", nominal_or_ordinal(roles.category_field, x_field)),
                                   LabelAngle >>)),
                   KV("y", JDict(<< KV("field", JStr("value")),
                                   KV("type", JStr("quantitative")),
                                   KV("title", JStr("Value")) >>)),
                   KV("color", JDict(<< KV("field", JStr("metric")),
                                       KV("type", JStr("nominal")),
                                       KV("title", JStr("Metric")) >>)),
                   KV("xOffset", JDict(<< KV("field", JStr("metric")) >>)) >>)),
               ViewConfig >>))

\* a bar chart with one x and one y channel (lines 374-385, 416-429)
single_bar_chart(description, data_values, x_field, x_type, y_field) ==
    JDict(base_spec(description, data_values) \o
        << KV("mark", JDict(<< KV("type", JStr("bar")), Tooltip >>)),
           KV("encoding", JDict(<<
               KV("x", JDict(<< KV("field", x_field), KV("type", x_type),
                               LabelAngle >>)),
               KV("y", JDict(<< KV("field", JStr(y_field)),
                               KV("type", JStr("quantitative")) >>)) >>)),
           ViewConfig >>)

\* variant: two axes whenever the scales differ, however many value fields
bar_chart_dual_for_any_count(description, data_values, fields, roles, different_scales) ==
    LET x_field == Or(Or(roles.category_field, roles.time_field), JStr(fields[1]))
    IN Local(Lower(description), LAMBDA description_lower :
       IF is_year_comparison(description_lower, roles.time_field)
       THEN period_compare_chart(description, data_values, fields, roles, x_field)
       ELSE IF wants_multi_metric(description_lower, roles.value_fields)
       THEN IF different_scales
            THEN dual_axis_chart(description, data_values, roles, x_field)
            ELSE IF Len(roles.value_fields) > 2
            THEN subplots_chart(description, data_values, roles, x_field)
            ELSE grouped_bars_chart(description, data_values, roles, x_field)
       ELSE single_bar_chart(description, data_values, x_field,
                             nominal_or_ordinal(roles.category_field, x_field),
                             primary_value_field(roles.value_fields, fields)))

\* lines 258-385: BAR CHART
bar_chart(description, data_values, fields, roles, different_scales) ==
    LET x_field == Or(Or(roles.category_field, roles.time_field), JStr(fields[1]))
    IN Local(Lower(description), LAMBDA description_lower :
       IF is_year_comparison(description_lower, roles.time_field)
       THEN period_compare_chart(description, data_values, fields, roles, x_field)
       ELSE IF wants_multi_metric(description_lower, roles.value_fields)
       THEN IF different_scales /\ Len(roles.value_fields) = 2
            THEN dual_axis_chart(description, data_values, roles, x_field)
            ELSE IF different_scales \/ Len(roles.value_fields) > 2
            THEN subplots_chart(description, data_values, roles, x_field)
            ELSE grouped_bars_chart(description, data_values, roles, x_field)
       ELSE single_bar_chart(description, data_values, x_field,
                             nominal_or_ordinal(roles.category_field, x_field),
                             primary_value_field(roles.value_fields, fields)))

\* lines 387-400: SCATTER PLOT
scatter_chart(description, data_values, fields) ==
    LET x_field == IF Len(fields) >= 2 THEN fields[1] ELSE "x"
        y_field == IF Len(fields) >= 2 THEN fields[2] ELSE "y"
    IN JDict(base_spec(description, data_values) \o
        << KV("mark", JDict(<< KV("type", JStr("point")), Tooltip >>)),
           KV("encoding", JDict(<<
               KV("x", JDict(<< KV("field", JStr(x_field)),
                               KV("type", JStr("quantitative")) >>)),
               KV("y", JDict(<< KV("field", JStr(y_field)),
                               KV("type", JStr("quantitative")) >>)) >>)),
           ViewConfig >>)

\* lines 402-414: PIE CHART
pie_chart(description, data_values, fields, roles) ==
    LET category == Or(roles.category_field, JStr(fields[1]))
        value == primary_value_field(roles.value_fields, fields)
    IN JDict(base_spec(description, data_values) \o
        << KV("mark", JDict(<< KV("type", JStr("arc")), Tooltip >>)),
           KV("encoding", JDict(<<
               KV("theta", JDict(<< KV("field", JStr(value)),
                                   KV("type", JStr("quantitative")) >>)),
               KV("color", JDict(<< KV("field", category),
                                   KV("type", JStr("nominal")) >>)) >>)) >>)

\* lines 416-429: DEFAULT: BAR CHART
default_chart(description, data_values, fields, roles) ==
    single_bar_chart(description, data_values,
                     Or(roles.category_field, JStr(fields[1])), JStr("nominal"),
                     primary_value_field(roles.value_fields, fields))

\* lines 220, 259, 388, 403: the chart family the description asks for
chart_family(description_lower) ==
    IF AnyIn(<<"line", "trend", "time series">>, description_lower) THEN "line"
    ELSE IF AnyIn(<<"bar", "column", "histogram">>, description_lower) THEN "bar"
    ELSE IF AnyIn(<<"scatter", "point">>, description_lower) THEN "scatter"
    ELSE IF AnyIn(<<"pie", "donut">>, description_lower) THEN "pie"
    ELSE "default"

\* lines 206-209: the locals the chart is built from
chart_inputs(sample) ==
    Local(normalize_data(sample), LAMBDA data :
    Local(detect_field_types(data.fields, data.data_values), LAMBDA roles :
        [data_values |-> data.data_values, fields |-> data.fields, roles |-> roles,
         different_scales |->
             have_different_scales(roles.value_fields,
                                   data.data_values).different_scales]))

\* lines 220-429: the chart document, or the exception raised building it
chart_document(description, in) ==
    Local(chart_family(Lower(description)), LAMBDA family :
       CASE family = "line" ->
              line_chart(description, in.data_values, in.fields, in.roles)
         [] family = "bar" ->
              bar_chart(description, in.data_values, in.fields, in.roles,
                        in.different_scales)
         [] family = "scatter" -> scatter_chart(description, in.data_values, in.fields)
         [] family = "pie" ->
              pie_chart(description, in.data_values, in.fields, in.roles)
         [] OTHER -> default_chart(description, in.data_values, in.fields, in.roles))

NoResult == [t |-> "none"]
generate == "generate_vega_lite_spec"
process == "process_structured_data"

\* lines 21-429: the locals of lines 206-209 when the call ends, and what
\* the call returns or the exception that escapes it
generate_call(description, sample) ==
    IF description = "" \/ IsBlank(description)
    THEN [locals |-> NoResult,
          returned |->
              json_dumps(JDict(<< KV("error", JStr("chart_description cannot be empty")),
                                  KV("status", JStr("failed")) >>))]
    ELSE Local(chart_inputs(sample), LAMBDA in :
         Local(chart_document(description, in), LAMBDA document :
            [locals |-> [t |-> generate] @@ in,
             returned |-> IF IsExc(document) THEN document
                          ELSE json_dumps(document)]))

generate_vega_lite_spec(description, sample) ==
    generate_call(description, sample).returned

(***************************************************************************)
(* src/process_structured_data.py                                          *)
(***************************************************************************)
StrList(names) == JList([i \in 1..Len(names) |-> JStr(names[i])])

\* list(v): the items iterated, or TypeError for a value that is not iterable
Iterate(v) ==
    CASE IsList(v) -> v
      [] IsStr(v) -> JList([i \in 1..Len(v.s) |-> JStr(Char(v.s, i))])
      [] IsDict(v) -> JList([i \in 1..Len(v.items) |-> JStr(v.items[i].k)])
      [] OTHER -> Exc("TypeError")

\* variant: every column gets the first value of the row
zip_row_first_value(columns, row) ==
    IF ~IsList(row) \/ row.items = <<>> THEN JDict(<<>>)
    ELSE dict_of([i \in 1..Len(columns) |-> KV(PyStr(columns[i]), row.items[1])])

\* dict(zip(columns, row)) for columns already iterated: pairs up to the
\* shorter length, a repeated column keeps its last value; a row that is not
\* iterable or a column that is not hashable raises TypeError.  The columns the
\* model draws are str, list or dict values.
zip_row(columns, row) ==
    Local(Iterate(row), LAMBDA values :
       IF IsExc(values) THEN values
       ELSE LET n == IF Len(columns) < Len(values.items)
                     THEN Len(columns) ELSE Len(values.items)
            IN IF \E i \in 1..n : ~IsStr(columns[i]) THEN Exc("TypeError")
               ELSE dict_of([i \in 1..n |-> KV(columns[i].s, values.items[i])]))

\* line 44: [dict(zip(columns, row)) for row in rows], or the TypeError raised
zip_rows(columns, rows) ==
    Local(Iterate(columns), LAMBDA names :
    Local(Iterate(rows), LAMBDA each :
       IF IsExc(each) THEN each
       ELSE IF each.items = <<>> THEN JList(<<>>)
       ELSE IF IsExc(names) THEN names
       ELSE Local([i \in 1..Len(each.items) |->
                      zip_row(names.items, each.items[i])], LAMBDA records :
               IF \E i \in 1..Len(records) : IsExc(records[i])
               THEN Exc("TypeError") ELSE JList(records))))

\* lines 32-57
parse_input_data(sample) ==
    IF SampleIsBlank(sample) THEN <<>>
    ELSE LET parsed == json_loads(sample)
         IN IF IsExc(parsed) THEN <<>>
            ELSE IF IsDict(parsed) /\ HasKey(parsed, "columns") /\ HasKey(parsed, "rows")
            THEN Local(zip_rows(Get(parsed, "columns"), Get(parsed, "rows")),
                       LAMBDA records :
                    IF IsExc(records) THEN <<>> ELSE records.items)
            ELSE IF IsList(parsed) THEN parsed.items
            ELSE IF IsDict(parsed) THEN <<parsed>>
            ELSE <<>>

date_name_keywords == <<"year", "date", "time", "month", "day", "quarter">>
category_name_keywords ==
    <<"name", "region", "category", "type", "brand", "segment", "id">>

AppendNew(names, name) ==
    IF \E i \in 1..Len(names) : names[i] = name THEN names ELSE Append(names, name)

\* str(row.get(field, ''))
row_get_str(row, field) == IF HasKey(row, field) THEN PyStr(Get(row, field)) ELSE ""

\* lines 85-89: check field name patterns
name_patterns(lists, field) ==
    LET field_lower == Lower(field)
    IN IF AnyIn(date_name_keywords, field_lower)
       THEN [lists EXCEPT !.date_fields = Append(@, field)]
       ELSE IF AnyIn(category_name_keywords, field_lower)
       THEN [lists EXCEPT !.category_fields = Append(@, field)]
       ELSE lists

\* lines 103-107: limited unique values make a text field a category; a row
\* that is no dict raises in row.get and ends the try block before that
text_category(lists, field, data) ==
    IF \E i \in 1..Len(data) : ~IsDict(data[i]) THEN lists
    ELSE LET unique_values ==
                 Cardinality({row_get_str(data[i], field) : i \in 1..Len(data)})
         IN IF unique_values <= 10 \/ 2 * unique_values <= Len(data)
            THEN [lists EXCEPT !.category_fields = AppendNew(@, field)]
            ELSE lists

\* lines 91-109: check actual data types
data_types(lists, field, data) ==
    LET sample_value == Get(data[1], field)
    IN IF IsNumeric(sample_value)
       THEN [lists EXCEPT !.numeric_fields = Append(@, field)]
       ELSE IF IsStr(sample_value)
       THEN IF MatchYear(sample_value.s)
            THEN [lists EXCEPT !.date_fields = AppendNew(@, field)]
            ELSE text_category([lists EXCEPT !.text_fields = Append(@, field)],
                               field, data)
       ELSE lists

RECURSIVE analyze_fields(_, _, _)
analyze_fields(lists, fields, data) ==
    IF fields = <<>> THEN lists
    ELSE analyze_fields(data_types(name_patterns(lists, Head(fields)),
                                   Head(fields), data),
                        Tail(fields), data)

\* variant: categories are looked at before the time series
recommended_viz_bar_first(lists, data) ==
    IF Len(lists.category_fields) > 0 /\ Len(lists.numeric_fields) > 0
    THEN JStr("bar")
    ELSE IF Len(lists.date_fields) > 0 /\ Len(lists.numeric_fields) > 0
    THEN JStr("line")
    ELSE None

\* lines 111-124: determine visualization recommendation
recommended_viz(lists, data) ==
    LET has_time_series == Len(lists.date_fields) > 0
        has_categories == Len(lists.category_fields) > 0
        has_numeric == Len(lists.numeric_fields) > 0
    IN IF has_time_series /\ has_numeric THEN JStr("line")
       ELSE IF has_categories /\ has_numeric /\ Len(data) <= 20 THEN JStr("bar")
       ELSE IF has_numeric /\ Len(lists.numeric_fields) >= 2 THEN JStr("scatter")
       ELSE IF has_categories /\ has_numeric THEN JStr("bar")
       ELSE None

\* lines 59-137: the analysis dict, or the AttributeError of a first item
\* that has no keys()
analyze_data_structure(data) ==
    IF data = <<>>
    THEN [row_count |-> 0, fields |-> <<>>, numeric_fields |-> <<>>,
          text_fields |-> <<>>, date_fields |-> <<>>, category_fields |-> <<>>,
          has_time_series |-> FALSE, has_categories |-> FALSE,
          has_numeric |-> None, recommended_viz |-> None, t |-> "analysis"]
    ELSE IF ~IsDict(data[1]) THEN Exc("AttributeError")
    ELSE Local(analyze_fields(
                   [numeric_fields |-> <<>>, text_fields |-> <<>>,
                    date_fields |-> <<>>, category_fields |-> <<>>],
                   Keys(data[1]), data), LAMBDA lists :
            [row_count |-> Len(data), fields |-> Keys(data[1]),
             numeric_fields |-> lists.numeric_fields,
             text_fields |-> lists.text_fields,
             date_fields |-> lists.date_fields,
             category_fields |-> lists.category_fields,
             has_time_series |-> Len(lists.date_fields) > 0,
             has_categories |-> Len(lists.category_fields) > 0,
             has_numeric |-> JBool(Len(lists.numeric_fields) > 0),
             recommended_viz |-> recommended_viz(lists, data), t |-> "analysis"])

\* the analysis dict as json.dumps sees it; the dict of empty data (lines
\* 62-72) has no has_numeric key
analysis_dict(analysis) ==
    JDict(<< KV("row_count", JNum(analysis.row_count)),
             KV("fields", StrList(analysis.fields)),
             KV("numeric_fields", StrList(analysis.numeric_fields)),
             KV("text_fields", StrList(analysis.text_fields)),
             KV("date_fields", StrList(analysis.date_fields)),
             KV("category_fields", StrList(analysis.category_fields)),
             KV("has_time_series", JBool(analysis.has_time_series)),
             KV("has_categories", JBool(analysis.has_categories)) >>
          \o (IF analysis.has_numeric = None THEN <<>>
              ELSE << KV("has_numeric", analysis.has_numeric) >>)
          \o << KV("recommended_viz", analysis.recommended_viz) >>)

\* the distinct values, in order of first appearance
RECURSIVE Distinct(_)
Distinct(values) ==
    IF values = <<>> THEN <<>>
    ELSE LET rest == Distinct(SubSeq(values, 1, Len(values) - 1))
         IN AppendNew(rest, values[Len(values)])

\* the arrangement of list that code selects; codes 0 .. Len(list)! - 1 select
\* every arrangement, code 0 the list itself
RECURSIVE Arrange(_, _)
Arrange(list, code) ==
    IF list = <<>> THEN <<>>
    ELSE LET i == (code % Len(list)) + 1
         IN <<list[i]>> \o Arrange(SubSeq(list, 1, i - 1) \o SubSeq(list, i + 1, Len(list)),
                                   code \div Len(list))

\* line 164: list(set(values)).  A set of str iterates in the order of the
\* hashes, which the interpreter process seeds at start (PYTHONHASHSEED)
list_of_set(values, seed) == Arrange(Distinct(values), seed)

\* [str(row[field]) for row in data if field in row]
RECURSIVE strings_of(_, _)
strings_of(field, rows) ==
    IF rows = <<>> THEN <<>>
    ELSE LET row == Head(rows)
             rest == strings_of(field, Tail(rows))
         IN IF IsDict(row) /\ HasKey(row, field)
            THEN <<PyStr(Get(row, field))>> \o rest
            ELSE rest

\* lines 149-159: the entry of a numeric field; the numbers are those of the
\* int values the model draws
numeric_stats(field, data) ==
    Local(numbers_of(field, data), LAMBDA values :
       JDict(<< KV("type", JStr("numeric")),
                KV("min", JNum(SeqMin(values))),
                KV("max", JNum(SeqMax(values))),
                KV("avg", JFloat(SeqSum(values), Len(values))),
                KV("count", JNum(Len(values))) >>))

\* list[:n]
FirstRows(data, n) == SubSeq(data, 1, IF Len(data) < n THEN Len(data) ELSE n)

\* lines 161-170: the entry of a categorical field
categorical_stats(field, data, seed) ==
    Local(strings_of(field, data), LAMBDA values :
    Local(list_of_set(values, seed), LAMBDA unique_values :
       JDict(<< KV("type", JStr("categorical")),
                KV("unique_count", JNum(Len(unique_values))),
                KV("values", StrList(FirstRows(unique_values, 10))),
                KV("count", JNum(Len(values))) >>)))

\* lines 139-172: the stats dict, or the TypeError of a row that is no dict
generate_summary_stats(data, analysis, seed) ==
    LET numeric == analysis.numeric_fields
        categorical == analysis.category_fields
        raises(fields) == \E i \in 1..Len(fields) : \E j \in 1..Len(data) :
                              number_test_raises(fields[i], data[j])
        stats_of(with_values) ==
            [i \in 1..Len(with_values) |->
                KV(with_values[i], numeric_stats(with_values[i], data))]
            \o [i \in 1..Len(categorical) |->
                KV(categorical[i], categorical_stats(categorical[i], data, seed))]
        field_stats ==
            stats_of(SelectSeq(numeric, LAMBDA f : numbers_of(f, data) # <<>>))
    IN IF raises(numeric) \/ raises(categorical) THEN Exc("TypeError")
       ELSE JDict(<< KV("row_count", JNum(analysis.row_count)),
                     KV("column_count", JNum(Len(analysis.fields))),
                     KV("numeric_columns", JNum(Len(analysis.numeric_fields))),
                     KV("text_columns", JNum(Len(analysis.text_fields))),
                     KV("field_stats", dict_of(field_stats)) >>)

psd_base_spec(data) ==
    << KV("$schema", JStr(SchemaUrl)),
       KV("data", JDict(<< KV("values", JList(data)) >>)),
       KV("width", JNum(500)),
       KV("height", JNum(300)) >>

FirstOr(names, other) == IF Len(names) > 0 THEN JStr(names[1]) ELSE other

\* lines 187-207: determine fields for x and y axes
axis_fields(analysis) ==
    LET fields == analysis.fields
    IN [x_field |-> FirstOr(analysis.date_fields,
                        FirstOr(analysis.category_fields, FirstOr(fields, None))),
        y_field |-> FirstOr(analysis.numeric_fields,
                        IF Len(fields) > 1 THEN JStr(fields[2]) ELSE None),
        color_field |-> IF Len(analysis.date_fields) > 0
                           /\ Len(analysis.category_fields) > 0
                        THEN JStr(analysis.category_fields[1]) ELSE None]

\* lines 210-223: the line chart; None has no replace()
psd_line_chart(data, analysis, axes) ==
    IF axes.x_field = None \/ axes.y_field = None THEN Exc("AttributeError")
    ELSE JDict(psd_base_spec(data) \o
        << KV("mark", JDict(<< KV("type", JStr("line")),
                             KV("point", JBool(TRUE)), Tooltip >>)),
           KV("encoding", JDict(
               << KV("x", JDict(<< KV("field", axes.x_field),
                                  KV("type", JStr(IF Len(analysis.date_fields) > 0
                                                 THEN "temporal" ELSE "ordinal")),
                                  KV("title", JStr(Humanize(axes.x_field.s))) >>)),
                  KV("y", JDict(<< KV("field", axes.y_field),
                                  KV("type", JStr("quantitative")),
                                  KV("title", JStr(Humanize(axes.y_field.s))) >>)) >>
               \o (IF Truthy(axes.color_field)
                   THEN << KV("color", JDict(<<
                               KV("field", axes.color_field),
                               KV("type", JStr("nominal")),
                               KV("title", JStr(Humanize(axes.color_field.s))) >>)) >>
                   ELSE <<>>))) >>)

\* lines 225-233 and 261-269: the bar chart, with or without the label angle
psd_bar_chart(data, axes, x_extra) ==
    JDict(psd_base_spec(data) \o
        << KV("mark", JDict(<< KV("type", JStr("bar")), Tooltip >>)),
           KV("encoding", JDict(<<
               KV("x", JDict(<< KV("field", axes.x_field),
                               KV("type", JStr("nominal")) >> \o x_extra)),
               KV("y", JDict(<< KV("field", axes.y_field),
                               KV("type", JStr("quantitative")) >>)) >>)) >>)

\* lines 235-246
psd_scatter_chart(data, analysis) ==
    LET fields == analysis.fields
        numeric == analysis.numeric_fields
        x_num == IF Len(numeric) > 0 THEN numeric[1] ELSE fields[1]
        y_num == IF Len(numeric) > 1 THEN numeric[2]
                 ELSE IF Len(fields) > 1 THEN fields[2] ELSE fields[1]
    IN JDict(psd_base_spec(data) \o
        << KV("mark", JDict(<< KV("type", JStr("point")), Tooltip >>)),
           KV("encoding", JDict(<<
               KV("x", JDict(<< KV("field", JStr(x_num)),
                               KV("type", JStr("quantitative")) >>)),
               KV("y", JDict(<< KV("field", JStr(y_num)),
                               KV("type", JStr("quantitative")) >>)) >>)) >>)

\* lines 248-259
psd_pie_chart(data, analysis) ==
    LET fields == analysis.fields
        cat_field == IF Len(analysis.category_fields) > 0
                     THEN analysis.category_fields[1] ELSE fields[1]
        val_field == IF Len(analysis.numeric_fields) > 0
                     THEN analysis.numeric_fields[1]
                     ELSE IF Len(fields) > 1 THEN fields[2] ELSE fields[1]
    IN JDict(psd_base_spec(data) \o
        << KV("mark", JDict(<< KV("type", JStr("arc")), Tooltip >>)),
           KV("encoding", JDict(<<
               KV("theta", JDict(<< KV("field", JStr(val_field)),
                                   KV("type", JStr("quantitative")) >>)),
               KV("color", JDict(<< KV("field", JStr(cat_field)),
                                   KV("type", JStr("nominal")) >>)) >>)) >>)

\* lines 174-269: the nested generate_vega_lite_spec(data, analysis, chart_type)
psd_generate_vega_lite_spec(data, analysis, chart_type) ==
    IF data = <<>> \/ analysis.fields = <<>>
    THEN JDict(<< KV("error", JStr("No data to visualize")) >>)
    ELSE LET axes == axis_fields(analysis)
         IN CASE chart_type = "line" -> psd_line_chart(data, analysis, axes)
              [] chart_type = "bar" -> psd_bar_chart(data, axes, <<LabelAngle>>)
              [] chart_type = "scatter" -> psd_scatter_chart(data, analysis)
              [] chart_type = "pie" -> psd_pie_chart(data, analysis)
              [] OTHER -> psd_bar_chart(data, axes, <<>>)

\* variant: the error without a status
empty_sample_error_without_status ==
    JDict(<< KV("error", JStr("data_sample cannot be empty")) >>)

\* lines 275-278
empty_sample_error ==
    JDict(<< KV("error", JStr("data_sample cannot be empty")),
             KV("status", JStr("failed")) >>)

\* variant: the error without a hint
parse_error_without_hint ==
    JDict(<< KV("error", JStr("Could not parse data_sample")),
             KV("status", JStr("failed")) >>)

\* lines 284-288
parse_error ==
    JDict(<< KV("error", JStr("Could not parse data_sample")),
             KV("status", JStr("failed")),
             KV("hint", JStr("Expected JSON array of objects or SQL result format")) >>)

\* lines 297-307: handle specific chart type requests
chart_request(data, analysis, instruction_lower) ==
    Local(AfterColon(instruction_lower), LAMBDA chart_type :
    Local(psd_generate_vega_lite_spec(data, analysis, chart_type), LAMBDA spec :
       IF IsExc(spec) THEN spec
       ELSE JDict(<< KV("status", JStr("success")),
                     KV("type", JStr("visualization")),
                     KV("format", JStr("vega-lite")),
                     KV("chart_type", JStr(chart_type)),
                     KV("data_analysis", analysis_dict(analysis)),
                     KV("output", spec) >>)))

\* lines 310-318: summarize mode
summarize_request(data, analysis, seed) ==
    Local(generate_summary_stats(data, analysis, seed), LAMBDA stats :
       IF IsExc(stats) THEN stats
       ELSE JDict(<< KV("status", JStr("success")),
                     KV("type", JStr("summary")),
                     KV("data_preview", JList(FirstRows(data, 5))),
                     KV("analysis", analysis_dict(analysis)),
                     KV("statistics", stats) >>))

\* lines 321-329: format mode
format_request(data, analysis) ==
    JDict(<< KV("status", JStr("success")),
             KV("type", JStr("formatted_data")),
             KV("data", JList(data)),
             KV("analysis", analysis_dict(analysis)),
             KV("row_count", JNum(Len(data))),
             KV("columns", StrList(analysis.fields)) >>)

\* lines 334-346: the recommended visualization
auto_visualization(data, analysis, seed) ==
    Local(psd_generate_vega_lite_spec(data, analysis,
                                      analysis.recommended_viz.s), LAMBDA spec :
    Local(generate_summary_stats(data, analysis, seed), LAMBDA stats :
       IF IsExc(spec) THEN spec
       ELSE IF IsExc(stats) THEN stats
       ELSE JDict(<< KV("status", JStr("success")),
                     KV("type", JStr("auto_visualization")),
                     KV("format", JStr("vega-lite")),
                     KV("chart_type", analysis.recommended_viz),
                     KV("data_analysis", analysis_dict(analysis)),
                     KV("statistics", stats),
                     KV("output", spec) >>)))

\* lines 349-358: the formatted summary
summary_with_hint(data, analysis, seed) ==
    Local(generate_summary_stats(data, analysis, seed), LAMBDA stats :
       IF IsExc(stats) THEN stats
       ELSE JDict(<< KV("status", JStr("success")),
                     KV("type", JStr("summary")),
                     KV("data_preview", JList(FirstRows(data, 10))),
                     KV("analysis", analysis_dict(analysis)),
                     KV("statistics", stats),
                     KV("hint", JStr("No clear visualization pattern detected. Use processing_instruction='chart:bar' or 'chart:line' to force a specific chart type.")) >>))

\* lines 293-358: determine processing mode
dispatch(data, analysis, instruction, seed) ==
    Local(Lower(instruction), LAMBDA instruction_lower :
       IF StartsWith(instruction_lower, "chart:")
       THEN chart_request(data, analysis, instruction_lower)
       ELSE IF instruction_lower = "summarize"
       THEN summarize_request(data, analysis, seed)
       ELSE IF instruction_lower = "format"
       THEN format_request(data, analysis)
       ELSE IF Truthy(analysis.recommended_viz)
               /\ (instruction_lower = "auto" \/ instruction_lower = "visualize")
       THEN auto_visualization(data, analysis, seed)
       ELSE summary_with_hint(data, analysis, seed))

\* lines 1-358: what the call returns, or the exception that escapes it, in
\* an interpreter process whose str hashes are seeded with seed
process_structured_data(sample, instruction, seed) ==
    IF SampleIsBlank(sample) THEN json_dumps(empty_sample_error)
    ELSE Local(parse_input_data(sample), LAMBDA data :
            IF data = <<>> THEN json_dumps(parse_error)
            ELSE Local(analyze_data_structure(data), LAMBDA analysis :
                    IF IsExc(analysis) THEN analysis
                    ELSE Local(dispatch(data, analysis, instruction, seed),
                               LAMBDA document :
                            IF IsExc(document) THEN document
                            ELSE json_dumps(document))))

(***************************************************************************)
(* The inputs the callers pass.                                            *)
(***************************************************************************)
Table(rows) == Json(JList(rows))

\* __main__ Test 1 of process_structured_data.py (Sales in whole units)
TestData1 ==
    Table(<< JDict(<< KV("Region", JStr("Americas")), KV("Year", JNum(2020)), KV("Sales", JNum(31774)) >>),
             JDict(<< KV("Region", JStr("Americas")), KV("Year", JNum(2021)), KV("Sales", JNum(37352)) >>),
             JDict(<< KV("Region", JStr("Americas")), KV("Year", JNum(2022)), KV("Sales", JNum(41452)) >>),
             JDict(<< KV("Region", JStr("Europe")), KV("Year", JNum(2020)), KV("Sales", JNum(1224)) >>),
             JDict(<< KV("Region", JStr("Europe")), KV("Year", JNum(2021)), KV("Sales", JNum(1702)) >>),
             JDict(<< KV("Region", JStr("Europe")), KV("Year", JNum(2022)), KV("Sales", JNum(2205)) >>) >>)

\* sales_usd spans 8000, volume spans 10
VodkaData ==
    Table(<< JDict(<< KV("region", JStr("North")), KV("sales_usd", JNum(1000)), KV("volume", JNum(10)) >>),
             JDict(<< KV("region", JStr("South")), KV("sales_usd", JNum(9000)), KV("volume", JNum(20)) >>) >>)

\* the second record lacks fields of the first
MissingFieldData ==
    Table(<< JDict(<< KV("region", JStr("a")), KV("sales", JNum(1)), KV("volume", JNum(2)) >>),
             JDict(<< KV("region", JStr("b")) >>) >>)

\* the second element is no object
MixedRowsData ==
    Table(<< JDict(<< KV("region", JStr("a")), KV("sales", JNum(1)), KV("volume", JNum(2)) >>),
             JNum(5) >>)

NumberArray == Table(<< JNum(1), JNum(2) >>)
SingleTextField == Table(<< JDict(<< KV("label", JStr("x")) >>) >>)
SingleObject == Json(JDict(<< KV("Category", JStr("A")), KV("Value", JNum(100)) >>))
NameRows ==
    Table(<< JDict(<< KV("name", JStr("a")) >>), JDict(<< KV("name", JStr("b")) >>),
             JDict(<< KV("name", JStr("c")) >>) >>)
\* {"columns": [...], "rows": [[...], ...]}
Tabular(columns, rows) == Json(JDict(<< KV("columns", columns), KV("rows", rows) >>))

PieTable ==
    Tabular(StrList(<<"Category", "Value">>),
            JList(<< JList(<<JStr("A"), JNum(100)>>), JList(<<JStr("B"), JNum(150)>>) >>))
\* __main__ Test 4 of process_structured_data.py (Percentage in tenths)
Test4Table ==
    Tabular(StrList(<<"Category", "Value", "Percentage">>),
            JList(<< JList(<<JStr("A"), JNum(100), JNum(255)>>),
                     JList(<<JStr("B"), JNum(150), JNum(382)>>),
                     JList(<<JStr("C"), JNum(142), JNum(363)>>) >>))

Tables ==
    { PieTable, Test4Table,
      Tabular(StrList(<<"Year", "Region", "Sales">>),
              JList(<< JList(<<JNum(2020), JStr("Americas"), JNum(300)>>),
                       JList(<<JNum(2021), JStr("Europe"), JNum(100)>>) >>)),
      \* a row shorter and a row longer than the columns
      Tabular(StrList(<<"Category", "Value">>),
              JList(<< JList(<<JStr("A")>>),
                       JList(<<JStr("B"), JNum(150), JNum(9)>>) >>)),
      \* a column name that repeats
      Tabular(StrList(<<"Value", "Category", "Value">>),
              JList(<< JList(<<JNum(1), JStr("A"), JNum(100)>>) >>)),
      \* no rows; columns that cannot be iterated; rows that cannot be iterated
      Tabular(StrList(<<"Category", "Value">>), JList(<<>>)),
      Tabular(JNum(5), JList(<< JList(<<JStr("A"), JNum(100)>>) >>)),
      Tabular(StrList(<<"Category", "Value">>), JNum(5)) }

DataSamples ==
    { Text(""), Text("  "), Text("not json"),
      Json(JList(<<>>)), Json(JNum(5)), Json(None), Json(JDict(<<>>)),
      NumberArray, SingleTextField, SingleObject, NameRows,
      TestData1, VodkaData, MissingFieldData, MixedRowsData,
      \* a date-like text field and a measure
      Table(<< JDict(<< KV("when", JStr("2024-01-15")), KV("amount", JNum(7)) >>),
               JDict(<< KV("when", JStr("2024-02-15")), KV("amount", JNum(9)) >>) >>),
      \* two measures of the same scale
      Table(<< JDict(<< KV("region", JStr("North")), KV("sales", JNum(100)), KV("volume", JNum(40)) >>),
               JDict(<< KV("region", JStr("South")), KV("sales", JNum(250)), KV("volume", JNum(90)) >>) >>),
      \* three measures, with a time field
      Table(<< JDict(<< KV("year", JNum(2022)), KV("revenue", JNum(500)), KV("volume", JNum(40)), KV("profit", JNum(70)) >>),
               JDict(<< KV("year", JNum(2023)), KV("revenue", JNum(900)), KV("volume", JNum(90)), KV("profit", JNum(95)) >>) >>),
      \* two fields with a time keyword in their names, the second one text
      Table(<< JDict(<< KV("year", JNum(2020)), KV("month", JStr("2020-03")), KV("sales", JNum(5)) >>),
               JDict(<< KV("year", JNum(2020)), KV("month", JStr("2020-04")), KV("sales", JNum(8)) >>) >>),
      \* two text fields, the second with a category keyword in its name
      Table(<< JDict(<< KV("note", JStr("x")), KV("region", JStr("East")), KV("sales", JNum(5)) >>),
               JDict(<< KV("note", JStr("y")), KV("region", JStr("West")), KV("sales", JNum(8)) >>) >>)
    } \cup Tables

VodkaDescription == "compare vodka sales USD vs volume by region"

Descriptions ==
    { "", "  ", VodkaDescription, "sales trend", "Line chart", "bar",
      "grouped bar", "compare both as bar chart", "scatter", "pie",
      "revenue by region" }

Instructions ==
    { "auto", "visualize", "summarize", "format", "chart:line", "chart:bar",
      "chart:scatter", "chart:pie", "Chart:Pie", "chart:area", "table" }

\* the interpreter processes a caller may meet: one hash seed each
MaxSeed == 1
Seeds == 0..MaxSeed

\* first records for detect_field_types: up to MaxFields fields of different
\* names, each with a numeric, text, date-like text, boolean or null sample
MaxFields == 3
FieldNames == {"Year", "Region", "Sales", ""}
SampleValues == {JNum(2020), JStr("East"), JStr("2021-01-05"), JBool(TRUE), None}
FieldLists(n) ==
    {names \in [1..n -> FieldNames] :
        \A i \in 1..n : \A j \in 1..n : i # j => names[i] # names[j]}
FirstRecord(names, values) ==
    Table(<< JDict([i \in 1..Len(names) |-> KV(names[i], values[i])]) >>)

(***************************************************************************)
(* The callers: each call is one step.                                     *)
(***************************************************************************)
\* the locals of process_structured_data when it ends (lines 281, 291)
process_locals(sample) ==
    IF SampleIsBlank(sample) THEN NoResult
    ELSE [t |-> process, data |-> parse_input_data(sample)]

Fresh ==
    /\ pc = "ready"
    /\ entry = "none"
    /\ result = NoResult
    /\ locals = NoResult
    /\ earlier = [e \in {generate, process} |-> NoResult]

\* one request at a time: a description with the default instruction, or an
\* instruction with a plain description
Init ==
    /\ data_sample \in DataSamples
    /\ \/ chart_description \in Descriptions /\ processing_instruction = "auto"
       \/ chart_description = "bar" /\ processing_instruction \in Instructions
    /\ hash_seed \in Seeds
    /\ Fresh

\* what the caller got the first time it made this call
Remember(e, r) == IF earlier[e] = NoResult THEN [earlier EXCEPT ![e] = r] ELSE earlier

CallGenerate ==
    \E call \in {generate_call(chart_description, data_sample)} :
       /\ result' = call.returned
       /\ locals' = call.locals
       /\ entry' = generate
       /\ pc' = "done"
       /\ earlier' = Remember(generate, call.returned)
       /\ UNCHANGED <<chart_description, data_sample, processing_instruction, hash_seed>>

CallProcess ==
    \E r \in {process_structured_data(data_sample, processing_instruction, hash_seed)} :
       /\ result' = r
       /\ locals' = process_locals(data_sample)
       /\ entry' = process
       /\ pc' = "done"
       /\ earlier' = Remember(process, r)
       /\ UNCHANGED <<chart_description, data_sample, processing_instruction, hash_seed>>

\* the interpreter process is replaced by a new one: str hashes are seeded
\* anew, and no call is under way
Restart ==
    /\ hash_seed' \in Seeds \ {hash_seed}
    /\ pc' = "ready"
    /\ entry' = "none"
    /\ result' = NoResult
    /\ locals' = NoResult
    /\ UNCHANGED <<chart_description, data_sample, processing_instruction, earlier>>

Next == CallGenerate \/ CallProcess \/ Restart

Spec == Init /\ [][Next]_vars

\* generate_vega_lite_spec over the first records of the classifier
InitClassify ==
    /\ \E n \in 2..MaxFields :
          \E names \in FieldLists(n) : \E values \in [1..n -> SampleValues] :
             data_sample = FirstRecord(names, values)
    /\ chart_description = "bar"
    /\ processing_instruction = "auto"
    /\ hash_seed = 0
    /\ Fresh

SpecClassify == InitClassify /\ [][CallGenerate]_vars

\* datasets for have_different_scales: two records with a region, with or
\* without a year, and 2..MaxMeasures measures
MaxMeasures == 3
MeasureNames == <<"sales", "volume", "profit", "cost">>

\* what the two records hold for one measure: values 100, 150, 10000 and
\* 10001 apart; a number and then no entry
Observations ==
    { <<JNum(0), JNum(100)>>, <<JNum(150), JNum(0)>>, <<JNum(0), JNum(10000)>>,
      <<JNum(10001), JNum(0)>>, <<JNum(7), [t |-> "absent"]>> }

\* for two measures also: values 50000 apart; the same value twice; zero twice
PairObservations ==
    Observations \cup
        { <<JNum(0), JNum(50000)>>, <<JNum(5), JNum(5)>>, <<JNum(0), JNum(0)>> }

\* record k of the dataset
ScaleRecord(with_year, names, observed, k) ==
    JDict(SelectSeq(
        << KV("region", JStr(IF k = 1 THEN "North" ELSE "South")) >>
        \o (IF with_year THEN << KV("year", JNum(2020 + k)) >> ELSE <<>>)
        \o [i \in 1..Len(names) |-> KV(names[i], observed[i][k])],
        LAMBDA e : e.v.t # "absent"))

ScaleTable(with_year, names, observed) ==
    Table(<< ScaleRecord(with_year, names, observed, 1),
             ScaleRecord(with_year, names, observed, 2) >>)

\* generate_vega_lite_spec asked for a bar chart of these datasets
InitScales ==
    /\ \E n \in 2..MaxMeasures : \E with_year \in BOOLEAN :
          \E observed \in [1..n -> IF n = 2 THEN PairObservations
                                   ELSE Observations] :
             data_sample = ScaleTable(with_year, SubSeq(MeasureNames, 1, n), observed)
    /\ chart_description \in {"bar", "grouped bar", "compare both as bar chart"}
    /\ processing_instruction = "auto"
    /\ hash_seed = 0
    /\ Fresh

SpecScales == InitScales /\ [][CallGenerate]_vars

(***************************************************************************)
(* The claims.                                                             *)
(***************************************************************************)
Missing == [t |-> "missing"]

\* the value at a path of keys of a document, Missing where a key is absent
RECURSIVE At(_, _)
At(v, path) ==
    IF path = <<>> THEN v
    ELSE IF IsDict(v) /\ HasKey(v, Head(path)) THEN At(Get(v, Head(path)), Tail(path))
    ELSE Missing

Returned == pc = "done" /\ result.t = "json"
BlankDescription == IsBlank(chart_description)
ChartReturned == Returned /\ entry = generate /\ ~BlankDescription

\* C1, as the spec states it: every call of either entry point ends by
\* returning a JSON document; no exception escapes to the caller.
C1_NoExceptionEscapes == pc = "done" => result.t = "json"

\* C2, as the spec states it: every document returned by either entry point
\* has a top-level status that is "success" or "failed".
C2_StatusInEveryDocument ==
    Returned => At(result.v, <<"status">>) \in {JStr("success"), JStr("failed")}

\* C2, amended: every document process_structured_data returns, and the error
\* document generate_vega_lite_spec returns for a blank description, has a
\* top-level status that is "success" or "failed"; the chart documents of
\* generate_vega_lite_spec have no status key.
C2_StatusWhereTheCodeSetsIt ==
    Returned =>
        IF entry = process \/ BlankDescription
        THEN At(result.v, <<"status">>) \in {JStr("success"), JStr("failed")}
        ELSE ~HasKey(result.v, "status")

C2_ChartWithoutStatus ==
    /\ ChartReturned
    /\ HasKey(result.v, "mark")
    /\ ~HasKey(result.v, "status")

\* C3, as the spec states it: the description "compare vodka sales USD vs
\* volume by region" with fields region, sales_usd, volume, the range of
\* sales_usd more than 100 times that of volume, gives the dual-axis layout:
\* two layers, independent y scales, bars on sales_usd and a line on volume.
C3_VodkaIsDualAxis ==
    pc = "done" /\ entry = generate
      /\ chart_description = VodkaDescription /\ data_sample = VodkaData
    => /\ result.t = "json"
       /\ IsList(At(result.v, <<"layer">>))
       /\ Len(At(result.v, <<"layer">>).items) = 2
       /\ At(result.v, <<"resolve", "scale", "y">>) = JStr("independent")
       /\ At(At(result.v, <<"layer">>).items[1], <<"mark", "type">>) = JStr("bar")
       /\ At(At(result.v, <<"layer">>).items[1], <<"encoding", "y", "field">>)
              = JStr("sales_usd")
       /\ At(At(result.v, <<"layer">>).items[2], <<"mark", "type">>) = JStr("line")
       /\ At(At(result.v, <<"layer">>).items[2], <<"encoding", "y", "field">>)
              = JStr("volume")

\* the data string decodes to a non-empty array
NonEmptyArray(sample) ==
    sample.t = "json" /\ IsList(sample.v) /\ sample.v.items # <<>>

IsScalar(v) == v.t \in {"null", "bool", "num", "float", "str"}

\* the data string decodes to a non-empty array of flat objects
ArrayOfFlatObjects(sample) ==
    /\ NonEmptyArray(sample)
    /\ \A i \in 1..Len(sample.v.items) :
          /\ IsDict(sample.v.items[i])
          /\ \A j \in 1..Len(sample.v.items[i].items) :
                IsScalar(sample.v.items[i].items[j].v)

\* the first element of the array is an object with two fields or more
FirstIsWideObject(sample) ==
    IsDict(sample.v.items[1]) /\ Len(sample.v.items[1].items) >= 2

EmbeddedData == At(result.v, <<"data", "values">>)

\* C4, as the spec states it: for a non-blank description, a data string that
\* does not decode to a non-empty array of flat objects gives a chart document
\* whose data are exactly the three-record fallback.
C4_ThreeRecordsForAnyBadData ==
    pc = "done" /\ entry = generate /\ ~BlankDescription
      /\ ~ArrayOfFlatObjects(data_sample)
    => result.t = "json" /\ EmbeddedData = JList(ThreeRecordFallback)

\* C4, amended: for a non-blank description, a data string that is empty,
\* is not JSON, or decodes to anything but a non-empty array gives the
\* three-record fallback; a non-empty array whose first element is not an
\* object with at least two fields gives the one-record fallback
\* [{category: A, value: 28}]; any other array is the data the chart is built
\* from, whatever its later elements are.
C4_FallbackByShape ==
    pc = "done" /\ entry = generate /\ ~BlankDescription =>
        IF ~NonEmptyArray(data_sample)
        THEN result.t = "json" /\ EmbeddedData = JList(ThreeRecordFallback)
        ELSE IF ~FirstIsWideObject(data_sample)
        THEN result.t = "json" /\ EmbeddedData = JList(OneRecordFallback)
        ELSE locals.data_values = data_sample.v.items

C4_OneRecordForNumberArray ==
    /\ ChartReturned
    /\ data_sample = NumberArray
    /\ EmbeddedData = JList(OneRecordFallback)

\* process_structured_data found no dataset in the data string: the string
\* is blank, or parse_input_data returned no rows
NoDataset == locals = NoResult \/ locals.data = <<>>

CarriesNoData ==
    \A k \in {"output", "data", "data_preview", "analysis", "data_analysis",
              "statistics"} : ~HasKey(result.v, k)

\* C5, as the spec states it: for every mode, a data string that is empty,
\* blank or cannot be decoded into a non-empty dataset gives an error envelope
\* with error, status "failed" and hint, and no chart, analysis or statistics.
C5_ErrorEnvelopeWithHint ==
    pc = "done" /\ entry = process /\ NoDataset
    => /\ result.t = "json"
       /\ HasKey(result.v, "error")
       /\ At(result.v, <<"status">>) = JStr("failed")
       /\ HasKey(result.v, "hint")
       /\ CarriesNoData

\* C5, amended: for every mode, such a data string gives an error envelope
\* with error and status "failed" and no chart, analysis or statistics; the
\* envelope has a hint exactly when the data string is not blank.
C5_HintUnlessBlank ==
    pc = "done" /\ entry = process /\ NoDataset
    => /\ result.t = "json"
       /\ HasKey(result.v, "error")
       /\ At(result.v, <<"status">>) = JStr("failed")
       /\ HasKey(result.v, "hint") <=> ~SampleIsBlank(data_sample)
       /\ CarriesNoData

C5_BlankDataWithoutHint ==
    /\ Returned /\ entry = process
    /\ SampleIsBlank(data_sample)
    /\ HasKey(result.v, "error")
    /\ ~HasKey(result.v, "hint")

\* C6, as the spec states it: a call made again with the same inputs returns
\* the same string as the first time, whatever happened in between.
C6_SameInputsSameOutput ==
    pc = "done" /\ earlier[entry] # NoResult => result = earlier[entry]

\* the loop over the fields found no role at all
NothingClassified ==
    LET found == classify_fields([time_field |-> None, category_field |-> None,
                                  value_fields |-> <<>>],
                                 locals.fields, locals.data_values)
    IN found.time_field = None /\ found.category_field = None
         /\ found.value_fields = <<>>

\* C7: for every dataset that reaches detect_field_types, the measures it
\* returns are not empty and the temporal field or the categorical field is
\* not none.
C7_MeasureAndAxisAlwaysFound ==
    pc = "done" /\ entry = generate /\ locals # NoResult
    => /\ locals.roles.value_fields # <<>>
       /\ locals.roles.time_field # None \/ locals.roles.category_field # None

C7_FoundByFallbackOnly ==
    /\ pc = "done" /\ entry = generate /\ locals # NoResult
    /\ NothingClassified
    /\ locals.roles.value_fields # <<>>
    /\ locals.roles.category_field # None

\* C8: mode "auto" on the dataset of Region (text), Year and Sales (numeric),
\* 3 years x 2 regions, returns recommended_viz "line" and chart_type "line",
\* and the color of the chart is bound to Region.
C8_RegionYearSalesIsLine ==
    pc = "done" /\ entry = process
      /\ data_sample = TestData1 /\ processing_instruction = "auto"
    => /\ result.t = "json"
       /\ At(result.v, <<"data_analysis", "recommended_viz">>) = JStr("line")
       /\ At(result.v, <<"chart_type">>) = JStr("line")
       /\ At(result.v, <<"output", "mark", "type">>) = JStr("line")
       /\ At(result.v, <<"output", "encoding", "color", "field">>) = JStr("Region")

C8_LineChartReturned ==
    /\ Returned /\ entry = process
    /\ data_sample = TestData1 /\ processing_instruction = "auto"
    /\ At(result.v, <<"chart_type">>) = JStr("line")
    /\ At(result.v, <<"output", "encoding", "color", "field">>) = JStr("Region")

\* {columns, rows} with a list of column names and a list of rows that are lists
IsTable(sample) ==
    /\ sample.t = "json" /\ IsDict(sample.v)
    /\ HasKey(sample.v, "columns") /\ HasKey(sample.v, "rows")
    /\ IsList(Get(sample.v, "columns")) /\ IsList(Get(sample.v, "rows"))
    /\ \A i \in 1..Len(Get(sample.v, "columns").items) :
          IsStr(Get(sample.v, "columns").items[i])
    /\ \A i \in 1..Len(Get(sample.v, "rows").items) :
          IsList(Get(sample.v, "rows").items[i])

\* the object of one row: the column names in order, each with the value at
\* its position in the row
PairedRow(columns, values) ==
    dict_of([i \in 1..(IF Len(columns) < Len(values) THEN Len(columns)
                       ELSE Len(values)) |-> KV(columns[i].s, values[i])])

\* the array of objects that says what the table says
AsArrayOfObjects(sample) ==
    Table([i \in 1..Len(Get(sample.v, "rows").items) |->
              PairedRow(Get(sample.v, "columns").items,
                        Get(sample.v, "rows").items[i].items)])

\* C9: a table {columns, rows} is processed as the array of objects that pairs
\* each row's values with the column names in order: in every mode both give
\* the same result; columns [Category, Value] with rows [[A,100],[B,150]] in
\* mode "chart:pie" give theta bound to Value and color bound to Category.
C9_TableAsArrayOfObjects ==
    pc = "done" /\ entry = process /\ IsTable(data_sample)
    => /\ result = process_structured_data(AsArrayOfObjects(data_sample),
                                           processing_instruction, hash_seed)
       /\ data_sample = PieTable /\ processing_instruction = "chart:pie"
          => /\ result.t = "json"
             /\ At(result.v, <<"output", "encoding", "theta", "field">>)
                    = JStr("Value")
             /\ At(result.v, <<"output", "encoding", "color", "field">>)
                    = JStr("Category")

C9_PieOfTable ==
    /\ Returned /\ entry = process
    /\ data_sample = PieTable /\ processing_instruction = "chart:pie"
    /\ At(result.v, <<"output", "mark", "type">>) = JStr("arc")
    /\ At(result.v, <<"output", "encoding", "theta", "field">>) = JStr("Value")

\* the first record has the fields Year and Sales with numbers and Region
\* with the name of a region, in some order
YearRegionSales ==
    /\ NonEmptyArray(data_sample)
    /\ IsDict(data_sample.v.items[1])
    /\ Len(data_sample.v.items[1].items) = 3
    /\ At(data_sample.v.items[1], <<"Year">>) = JNum(2020)
    /\ At(data_sample.v.items[1], <<"Region">>) = JStr("East")
    /\ At(data_sample.v.items[1], <<"Sales">>) = JNum(2020)

\* C10: for a first record with Year (numeric), Region (text) and Sales
\* (numeric), in any order of the fields, detect_field_types returns
\* temporal Year, categorical Region and measures [Sales].
C10_YearRegionSalesRoles ==
    pc = "done" /\ entry = generate /\ YearRegionSales
    => locals.roles = [time_field |-> JStr("Year"),
                       category_field |-> JStr("Region"),
                       value_fields |-> <<"Sales">>]

C10_SalesFirstYearLast ==
    /\ pc = "done" /\ entry = generate /\ YearRegionSales
    /\ locals.fields = <<"Sales", "Region", "Year">>
    /\ locals.roles.time_field = JStr("Year")
    /\ locals.roles.value_fields = <<"Sales">>

\* generate_vega_lite_spec ended in its Bar family
BarFamilyCall ==
    /\ pc = "done" /\ entry = generate /\ locals # NoResult
    /\ chart_family(Lower(chart_description)) = "bar"

\* no field of the first record has the empty name
FieldsAreNamed == \A i \in 1..Len(locals.fields) : locals.fields[i] # ""

\* the cues of the description, as section 4.4 lists them
ComparisonIntent ==
    \/ AnyIn(<<"compare", "vs", "versus">>, Lower(chart_description))
    \/ Count(Lower(chart_description), "year") >= 2
MultiMetricPhrasing ==
    AnyIn(<<"grouped", "two bars", "both", "multiple", "including", "compare">>,
          Lower(chart_description))

MeasureCount == Len(locals.roles.value_fields)

\* the layout the decision table gives
TableLayout ==
    IF locals.roles.time_field # None /\ ComparisonIntent THEN "Period-Compare"
    ELSE IF MeasureCount >= 2 /\ MultiMetricPhrasing
    THEN IF MeasureCount = 2 /\ locals.different_scales THEN "Dual-Axis"
         ELSE IF MeasureCount > 2 \/ locals.different_scales THEN "Stacked Subplots"
         ELSE "Grouped Bars"
    ELSE "Single"

\* the layout of the document returned, read off the document
Layout ==
    CASE At(result.v, <<"layer">>) # Missing
           /\ At(result.v, <<"resolve", "scale", "y">>) = JStr("independent")
           -> "Dual-Axis"
      [] At(result.v, <<"vconcat">>) # Missing
           /\ Len(At(result.v, <<"vconcat">>).items) = MeasureCount
           /\ At(result.v, <<"resolve", "scale", "y">>) = JStr("independent")
           -> "Stacked Subplots"
      [] At(result.v, <<"encoding", "xOffset", "field">>) = JStr("metric")
           /\ At(result.v, <<"encoding", "color", "field">>) = JStr("metric")
           /\ At(result.v, <<"encoding", "y", "field">>) = JStr("value")
           -> "Grouped Bars"
      [] At(result.v, <<"encoding", "xOffset", "field">>) = locals.roles.time_field
           /\ At(result.v, <<"encoding", "color", "field">>) = locals.roles.time_field
           /\ At(result.v, <<"encoding", "y", "field">>)
                  = JStr(locals.roles.value_fields[1])
           -> "Period-Compare"
      [] At(result.v, <<"encoding", "xOffset">>) = Missing
           /\ At(result.v, <<"encoding", "color">>) = Missing
           /\ At(result.v, <<"mark", "type">>) = JStr("bar")
           /\ At(result.v, <<"encoding", "y", "field">>)
                  = JStr(locals.roles.value_fields[1])
           -> "Single"
      [] OTHER -> "other"

\* C11: in the Bar family the layout of the document returned is the one the
\* decision table gives: Period-Compare whenever a temporal field is
\* classified and the description has comparison intent; otherwise, with two
\* or more measures and multi-metric phrasing, Dual-Axis exactly for 2
\* divergent measures, Stacked Subplots exactly for more than 2 measures, and
\* Grouped Bars exactly for 2 non-divergent measures; in all other cases the
\* Single-measure bar with y = measure[0] (field names are not empty). A call
\* that raises instead of returning (C1) does so while reshaping the records
\* for Grouped Bars, after the table has given Grouped Bars.
C11_BarLayoutByDecisionTable ==
    BarFamilyCall /\ FieldsAreNamed =>
        IF result.t = "json" THEN Layout = TableLayout
        ELSE TableLayout = "Grouped Bars"

C11_SubplotsForThreeMeasures ==
    /\ BarFamilyCall /\ result.t = "json"
    /\ locals.roles.time_field # None /\ ~ComparisonIntent
    /\ MeasureCount = 3 /\ locals.different_scales
    /\ Layout = "Stacked Subplots"

\* the sample of a field in the first record
SampleOf(field) == first_row_value(locals.data_values, field)

HasTemporalKeyword(field) ==
    AnyIn(<<"year", "date", "time", "month", "day", "quarter", "week">>, Lower(field))
HasCategoricalKeyword(field) ==
    AnyIn(<<"name", "region", "category", "type", "brand", "segment", "product",
            "customer", "location", "country", "state", "city">>, Lower(field))

\* the fields with a temporal keyword in the name and a numeric or text sample
TemporalKeywordFields ==
    SelectSeq(locals.fields,
              LAMBDA f : HasTemporalKeyword(f)
                           /\ (IsNumeric(SampleOf(f)) \/ IsStr(SampleOf(f))))

\* C12, as the spec states it: when several fields of the first record have a
\* temporal keyword in the name and a numeric or text sample, the Temporal
\* role goes to the first of them in field order.
C12_FirstTemporalKeywordFieldWins ==
    pc = "done" /\ entry = generate /\ locals # NoResult
      /\ Len(TemporalKeywordFields) >= 2
    => locals.roles.time_field = JStr(TemporalKeywordFields[1])

\* the text fields that are never taken as Temporal: no temporal keyword in
\* the name, no sample that begins with four digits
PlainTextFields ==
    SelectSeq(locals.fields,
              LAMBDA f : IsStr(SampleOf(f)) /\ ~HasTemporalKeyword(f)
                           /\ ~MatchYear(SampleOf(f).s))

\* C13, as the spec states it: when the first record has several text fields
\* not classified Temporal and one of them has a categorical keyword in its
\* name, the categorical field is one whose name has a categorical keyword.
C13_CategoricalKeywordPreferred ==
    pc = "done" /\ entry = generate /\ locals # NoResult
      /\ Len(PlainTextFields) >= 2
      /\ (\E i \in 1..Len(PlainTextFields) : HasCategoricalKeyword(PlainTextFields[i]))
    => \E i \in 1..Len(PlainTextFields) :
          /\ HasCategoricalKeyword(PlainTextFields[i])
          /\ locals.roles.category_field = JStr(PlainTextFields[i])

\* have_different_scales was called with two measures or more, on records
\* that are all objects
ScalesCompared ==
    /\ pc = "done" /\ entry = generate /\ locals # NoResult
    /\ MeasureCount >= 2
    /\ \A k \in 1..Len(locals.data_values) : IsDict(locals.data_values[k])

Measures == {locals.roles.value_fields[i] : i \in 1..MeasureCount}

\* the numbers the records hold for a field
Observed(field) ==
    {NumOf(Get(locals.data_values[k], field)) :
        k \in {k \in 1..Len(locals.data_values) :
                  /\ HasKey(locals.data_values[k], field)
                  /\ IsIntOrFloat(Get(locals.data_values[k], field))}}

Highest(values) == CHOOSE v \in values : \A w \in values : w <= v
Lowest(values) == CHOOSE v \in values : \A w \in values : v <= w

\* max - min, or max itself when the two are equal (section 4.3)
RangeOf(field) ==
    IF Highest(Observed(field)) # Lowest(Observed(field))
    THEN Highest(Observed(field)) - Lowest(Observed(field))
    ELSE Highest(Observed(field))

RangesOfTwo(a, b) ==
    /\ MeasureCount = 2
    /\ {RangeOf(f) : f \in Measures} = {a, b}

\* value_fields in another order
Reordered(p) == [i \in 1..MeasureCount |-> locals.roles.value_fields[p[i]]]

\* C14: for two or more measures whose ranges are all positive,
\* have_different_scales returns true exactly when one range is strictly more
\* than 100 times another: ranges 100 and 50000 give true, 100 and 150 false,
\* 100 and 10000 false; and the result is the same for every order of the
\* measures.
C14_DivergentExactlyAboveHundredfold ==
    ScalesCompared /\ (\A f \in Measures : Observed(f) # {} /\ RangeOf(f) > 0)
    => /\ locals.different_scales
            <=> \E f \in Measures : \E g \in Measures : RangeOf(f) > 100 * RangeOf(g)
       /\ RangesOfTwo(100, 50000) => locals.different_scales
       /\ RangesOfTwo(100, 150) => ~locals.different_scales
       /\ RangesOfTwo(100, 10000) => ~locals.different_scales
       /\ \A p \in Permutations(1..MeasureCount) :
             have_different_scales(Reordered(p), locals.data_values).different_scales
                = locals.different_scales

C14_HundredAndFiftyThousand ==
    /\ ScalesCompared
    /\ RangesOfTwo(100, 50000)
    /\ locals.roles.value_fields = <<"sales", "volume">>
    /\ RangeOf("sales") = 50000
    /\ locals.different_scales

\* the measures with two distinct numeric observations or more
Varying == {f \in Measures : Cardinality(Observed(f)) >= 2}

\* C15, as the spec states it: a measure with fewer than two distinct numeric
\* observations across the records is skipped: the divergence flag is the one
\* that the other measures alone give.
C15_ConstantMeasureSkipped ==
    ScalesCompared
    => (locals.different_scales
          <=> \E f \in Varying : \E g \in Varying : RangeOf(f) > 100 * RangeOf(g))

\* C15, amended: every measure for which some record holds a number takes
\* part in the comparison, a constant or single-valued one with its value as
\* its range: the flag is true exactly when two such measures have positive
\* ranges, one more than 100 times the other. Only a measure with no numeric
\* observation at all is skipped.
C15_ConstantMeasureCompared ==
    ScalesCompared
    => (locals.different_scales
          <=> \E f \in Measures : \E g \in Measures :
                 /\ Observed(f) # {} /\ Observed(g) # {}
                 /\ RangeOf(g) > 0
                 /\ RangeOf(f) > 100 * RangeOf(g))

C15_DivergentByConstantMeasure ==
    /\ ScalesCompared
    /\ locals.roles.value_fields = <<"sales", "volume">>
    /\ Observed("sales") = {5}
    /\ Observed("volume") = {0, 10000}
    /\ locals.different_scales

\* generate_vega_lite_spec returned a chart of its Line family
LineFamilyCall ==
    /\ ChartReturned /\ locals # NoResult
    /\ chart_family(Lower(chart_description)) = "line"

\* the first-record sample of the temporal field is a string that starts
\* with YYYY-MM-DD
TemporalSampleIsIsoDate ==
    /\ locals.roles.time_field # None
    /\ IsStr(SampleOf(locals.roles.time_field.s))
    /\ MatchIsoDate(SampleOf(locals.roles.time_field.s).s)

\* C16: in the Line family x is bound to the temporal field when one is
\* classified and otherwise to the categorical field; color is bound to the
\* categorical field exactly when both are classified, and is absent
\* otherwise; the x type is "temporal" exactly when x is the temporal field
\* and its first-record sample is a string starting with an ISO date, and
\* "ordinal" in every other case. (Field names are not empty.)
C16_LineBindings ==
    LineFamilyCall /\ FieldsAreNamed
    => /\ At(result.v, <<"mark", "type">>) = JStr("line")
       /\ At(result.v, <<"encoding", "x", "field">>)
            = IF locals.roles.time_field # None THEN locals.roles.time_field
              ELSE locals.roles.category_field
       /\ At(result.v, <<"encoding", "color", "field">>)
            = IF locals.roles.time_field # None /\ locals.roles.category_field # None
              THEN locals.roles.category_field
              ELSE Missing
       /\ At(result.v, <<"encoding", "color">>) # Missing
            <=> locals.roles.time_field # None /\ locals.roles.category_field # None
       /\ At(result.v, <<"encoding", "x", "type">>)
            = JStr(IF TemporalSampleIsIsoDate THEN "temporal" ELSE "ordinal")

C16_TemporalAxisOfIsoDates ==
    /\ LineFamilyCall
    /\ TemporalSampleIsIsoDate
    /\ locals.roles.category_field = None
    /\ At(result.v, <<"encoding", "x", "field">>) = JStr("when")
    /\ At(result.v, <<"encoding", "x", "type">>) = JStr("temporal")
    /\ At(result.v, <<"encoding", "color">>) = Missing

\* the chart document of the call that ended, Missing when it returned none
Chart ==
    IF ~Returned THEN Missing
    ELSE IF entry = generate THEN result.v
    ELSE At(result.v, <<"output">>)

\* the first record of the dataset the chart is built from has two fields or
\* more
WideFirstRecord ==
    IF entry = generate THEN locals # NoResult /\ Len(locals.fields) >= 2
    ELSE /\ locals # NoResult /\ locals.data # <<>>
         /\ IsDict(locals.data[1]) /\ Len(Keys(locals.data[1])) >= 2

IsPie == At(Chart, <<"mark", "type">>) = JStr("arc")
AxisField ==
    At(Chart, IF IsPie THEN <<"encoding", "color", "field">>
              ELSE <<"encoding", "x", "field">>)
ValueField ==
    At(Chart, IF IsPie THEN <<"encoding", "theta", "field">>
              ELSE <<"encoding", "y", "field">>)

\* C17, as the spec implies it: in every single-view chart either entry point
\* returns for a dataset whose first record has two fields or more, the axis
\* or grouping channel (x, or color for a pie) and the value channel (y, or
\* theta for a pie) are bound to two different fields.
C17_AxisAndValueDiffer ==
    At(Chart, <<"encoding">>) # Missing /\ WideFirstRecord
    => AxisField # ValueField

\* C18, as the spec implies it: whenever process_structured_data returns
\* status "success" with type "visualization" or "auto_visualization", its
\* output is a chart document with a mark and an encoding, never an error
\* object.
C18_SuccessCarriesAChart ==
    Returned /\ entry = process
      /\ At(result.v, <<"status">>) = JStr("success")
      /\ At(result.v, <<"type">>) \in {JStr("visualization"), JStr("auto_visualization")}
    => /\ At(result.v, <<"output", "mark">>) # Missing
       /\ At(result.v, <<"output", "encoding">>) # Missing
       /\ At(result.v, <<"output", "error">>) = Missing

====
